---- MODULE Spec2Model ----
(***************************************************************************)
(* State-machine model of src/src/App.js: the App component of the weather *)
(* dashboard.  The state is the five useState cells, the API key read from *)
(* the environment, and the axios requests that are in flight.  One action *)
(* per event: the mount, a keystroke in the text field, a form submit, and *)
(* the settling (fulfilment or rejection) of an in-flight axios.get.       *)
(***************************************************************************)
EXTENDS Integers, Sequences, FiniteSets, TLC

VARIABLES
    mounted,             \* has the first render's effect run yet
    API_KEY,             \* process.env.REACT_APP_WEATHERAPI_KEY (App.js:36)
    city,                \* useState('London')  (App.js:29)
    inputCity,           \* useState('London')  (App.js:30)
    currentWeatherData,  \* useState(null)      (App.js:31)
    forecastData,        \* useState([])        (App.js:32)
    error,               \* useState(null)      (App.js:33)
    pending,             \* axios.get promises not yet settled (App.js:56)
    requests,            \* history: number of axios.get calls issued
    fetchLog,            \* history: arguments of the fetchWeatherData calls
    submits,             \* history: number of form submits handled
    applied              \* history: the request whose outcome was applied last

vars == <<mounted, API_KEY, city, inputCity, currentWeatherData, forecastData,
          error, pending, requests, fetchLog, submits, applied>>

----------------------------------------------------------------------------
(* Bounds *)

MaxFetches == 3     \* fetchWeatherData invocations explored per behaviour
MaxSubmits == 2     \* form submits explored per behaviour

----------------------------------------------------------------------------
(* JavaScript values: null, undefined, strings and objects, with the       *)
(* truthiness that !x, a && b and a || b test.                             *)

Null == [type |-> "null"]
Undefined == [type |-> "undefined"]
Str(s) == [type |-> "string", val |-> s]
Obj(f) == [type |-> "object", fields |-> f]

Truthy(v) == CASE v.type = "null" -> FALSE
               [] v.type = "undefined" -> FALSE
               [] v.type = "string" -> v.val # ""
               [] OTHER -> TRUE

\* o.f : property read; a missing property (and any property of a string)
\* reads as undefined.  Reading a property of null or undefined throws, so
\* callers test Nullish first.
Get(o, f) == IF o.type = "object" /\ f \in DOMAIN o.fields THEN o.fields[f]
             ELSE Undefined

Nullish(v) == v.type \in {"null", "undefined"}

\* a || b
Or(a, b) == IF Truthy(a) THEN a ELSE b

----------------------------------------------------------------------------
(* Program constants *)

DefaultCity == "London"
MissingKeyMsg == "API Key is missing. Please set REACT_APP_WEATHERAPI_KEY in your .env file."
UnknownErrorMsg == "An unknown error occurred while fetching weather data."
ForecastDaysRequested == 7

----------------------------------------------------------------------------
(* Inputs: what the user can type and what the upstream can answer.        *)

Cities == {"London", "Paris", "Zzzzz"}

ApiKeys == {Undefined, Str("k3y")}

Day(d, avg, max, min) ==
    [date |-> d, day |-> [avgtemp_f |-> avg, maxtemp_f |-> max, mintemp_f |-> min]]

DayA == Day("2024-05-02", 55, 61, 48)
DayB == Day("2024-05-01", 70, 78, 64)

\* one forecastday array of every length 0..ForecastDaysRequested, alternating
\* the two days (the later date first) so that neither dates nor temperatures
\* arrive sorted
Alternating(n, first, second) ==
    [i \in 1..n |-> IF i % 2 = 1 THEN first ELSE second]

ForecastDayArrays ==
    {Alternating(n, DayA, DayB) : n \in 0..ForecastDaysRequested}

CurrentObj == Obj([temp_f |-> 59, humidity |-> 72, wind_mph |-> 9, wind_dir |-> "SW",
                   condition |-> [text |-> "Partly cloudy", icon |-> "//cdn/116.png"]])

\* response.data of a fulfilled axios.get: the documented shape, and a body
\* without the forecast object
SuccessBodies ==
    {Obj([current |-> CurrentObj, forecast |-> Obj([forecastday |-> fd])]) :
        fd \in ForecastDayArrays}
      \cup {Obj([current |-> CurrentObj])}

NoLocationMsg == "No matching location found."

\* err of a rejected axios.get
HttpError(body, msg) ==
    Obj([response |-> Obj([data |-> body]), message |-> Str(msg)])

Rejections ==
    { HttpError(Obj([error |-> Obj([message |-> Str(NoLocationMsg)])]),
                "Request failed with status code 400"),
      HttpError(Obj([error |-> Obj([message |-> Str("")])]),
                "Request failed with status code 400"),
      HttpError(Obj([error |-> Obj([message |-> Str(NoLocationMsg)])]), ""),
      HttpError(Str("<html>Bad Gateway</html>"),
                "Request failed with status code 502"),
      Obj([message |-> Str("Network Error")]),
      Obj([response |-> Undefined, message |-> Str("")]),
      Obj([response |-> Obj([data |-> Null])]) }

----------------------------------------------------------------------------
(* Initial state: the useState defaults, before the first effect has run.  *)

Init ==
    /\ mounted = FALSE
    /\ API_KEY \in ApiKeys
    /\ city = DefaultCity
    /\ inputCity = DefaultCity
    /\ currentWeatherData = Null
    /\ forecastData = <<>>
    /\ error = Null
    /\ pending = {}
    /\ requests = 0
    /\ fetchLog = <<>>
    /\ submits = 0
    /\ applied = [id |-> 0, city |-> ""]

----------------------------------------------------------------------------
(* fetchWeatherData, up to its await (App.js:39-56).                       *)

\* variant: the "clear previous states" block forgets setError(null)
fetchWeatherDataKeepsError(selectedCity) ==
    /\ fetchLog' = Append(fetchLog, selectedCity)
    /\ IF ~Truthy(API_KEY)
       THEN /\ error' = Str(MissingKeyMsg)
            /\ UNCHANGED <<currentWeatherData, forecastData, pending, requests>>
       ELSE /\ UNCHANGED error
            /\ currentWeatherData' = Null
            /\ forecastData' = <<>>
            /\ requests' = requests + 1
            /\ pending' = pending \cup {[id |-> requests + 1, city |-> selectedCity]}

\* variant: the API-key validation sets the message but does not return
fetchWeatherDataNoKeyCheck(selectedCity) ==
    /\ fetchLog' = Append(fetchLog, selectedCity)
    /\ error' = IF ~Truthy(API_KEY) THEN Str(MissingKeyMsg) ELSE Null
    /\ currentWeatherData' = Null
    /\ forecastData' = <<>>
    /\ requests' = requests + 1
    /\ pending' = pending \cup {[id |-> requests + 1, city |-> selectedCity]}

fetchWeatherData(selectedCity) ==
    /\ fetchLog' = Append(fetchLog, selectedCity)
    /\ IF ~Truthy(API_KEY)
       THEN /\ error' = Str(MissingKeyMsg)
            /\ UNCHANGED <<currentWeatherData, forecastData, pending, requests>>
       ELSE /\ error' = Null
            /\ currentWeatherData' = Null
            /\ forecastData' = <<>>
            /\ requests' = requests + 1
            /\ pending' = pending \cup {[id |-> requests + 1, city |-> selectedCity]}

\* variant: the dependency array lists API_KEY only
DepsKeyOnly(c, k) == <<k>>

\* the dependency array of the effect (App.js:80)
Deps(c, k) == <<c, k>>

\* variant: useEffect without a dependency array runs after every render
useEffectEveryRender ==
    /\ Len(fetchLog) < MaxFetches
    /\ fetchWeatherData(city')

\* useEffect(() => fetchWeatherData(city), [city, API_KEY]): runs after the
\* first render and after every render in which a dependency changed
useEffect ==
    IF ~mounted \/ Deps(city', API_KEY') # Deps(city, API_KEY)
    THEN /\ Len(fetchLog) < MaxFetches
         /\ fetchWeatherData(city')
    ELSE UNCHANGED <<currentWeatherData, forecastData, error, pending,
                     requests, fetchLog>>

\* first render committed: the effect runs with the default city
Mount ==
    /\ ~mounted
    /\ mounted' = TRUE
    /\ UNCHANGED <<API_KEY, city, inputCity, submits, applied>>
    /\ useEffect

\* variant: the field commits on every keystroke (setCity as well)
HandleChangeLive(value) ==
    /\ mounted
    /\ inputCity' = value
    /\ city' = value
    /\ UNCHANGED <<mounted, API_KEY, submits, applied>>
    /\ useEffect

\* onChange={(e) => setInputCity(e.target.value)}  (App.js:206)
HandleChange(value) ==
    /\ mounted
    /\ inputCity' = value
    /\ UNCHANGED <<mounted, API_KEY, city, submits, applied>>
    /\ useEffect

\* handleSubmit (App.js:83-86) and the render it causes
handleSubmit ==
    /\ mounted
    /\ submits < MaxSubmits
    /\ submits' = submits + 1
    /\ city' = inputCity
    /\ UNCHANGED <<mounted, API_KEY, inputCity, applied>>
    /\ useEffect

----------------------------------------------------------------------------
(* fetchWeatherData after its await (App.js:57-74).                        *)

\* err.response && err.response.data && err.response.data.error
\*   && err.response.data.error.message
StructuredMessage(err) ==
    LET response == Get(err, "response") IN
    IF ~Truthy(response) THEN response
    ELSE LET data == Get(response, "data") IN
         IF ~Truthy(data) THEN data
         ELSE LET e == Get(data, "error") IN
              IF ~Truthy(e) THEN e
              ELSE Get(e, "message")

\* variant: the || chain tries err.message before the structured message
ErrorMessageTransportFirst(err) ==
    Or(Or(Get(err, "message"), StructuredMessage(err)), Str(UnknownErrorMsg))

\* variant: the || chain has no final fallback literal
ErrorMessageNoFallback(err) ==
    Or(StructuredMessage(err), Get(err, "message"))

\* the argument of setError in the catch block (App.js:67-71)
ErrorMessage(err) ==
    Or(Or(StructuredMessage(err), Get(err, "message")), Str(UnknownErrorMsg))

\* the catch block (App.js:65-74)
Catch(err) ==
    /\ error' = ErrorMessage(err)
    /\ currentWeatherData' = Null
    /\ forecastData' = <<>>

\* the TypeError raised by data.forecast.forecastday when data.forecast is
\* undefined
ForecastTypeError ==
    Obj([message |-> Str("Cannot read properties of undefined (reading 'forecastday')")])

\* variant: the forecast is read with optional chaining, so a body without
\* it raises nothing and the current conditions stay stored
TryOptionalChaining(data) ==
    LET forecast == Get(data, "forecast") IN
    /\ currentWeatherData' = Get(data, "current")
    /\ forecastData' = IF Nullish(forecast) THEN <<>>
                       ELSE Get(forecast, "forecastday")
    /\ UNCHANGED error

\* the try block after the await (App.js:57-63)
Try(data) ==
    LET forecast == Get(data, "forecast") IN
    IF Nullish(forecast)
    THEN Catch(ForecastTypeError)
    ELSE /\ currentWeatherData' = Get(data, "current")
         /\ forecastData' = Get(forecast, "forecastday")
         /\ UNCHANGED error

\* variant: a response is applied only if it answers the latest request
FulfillLatestOnly(r, data) ==
    /\ r \in pending
    /\ r.id = requests
    /\ pending' = pending \ {r}
    /\ applied' = r
    /\ Try(data)
    /\ UNCHANGED <<mounted, API_KEY, city, inputCity, requests, fetchLog, submits>>

\* an in-flight axios.get is fulfilled with body `data`
Fulfill(r, data) ==
    /\ r \in pending
    /\ pending' = pending \ {r}
    /\ applied' = r
    /\ Try(data)
    /\ UNCHANGED <<mounted, API_KEY, city, inputCity, requests, fetchLog, submits>>

\* variant: the rejection is not caught, so no state is written
RejectUnhandled(r, err) ==
    /\ r \in pending
    /\ pending' = pending \ {r}
    /\ UNCHANGED <<mounted, API_KEY, city, inputCity, currentWeatherData,
                   forecastData, error, requests, fetchLog, submits, applied>>

\* variant: the catch block reissues the request once more
RejectWithRetry(r, err) ==
    /\ r \in pending
    /\ requests < MaxFetches
    /\ requests' = requests + 1
    /\ pending' = (pending \ {r}) \cup {[id |-> requests + 1, city |-> r.city]}
    /\ applied' = r
    /\ Catch(err)
    /\ UNCHANGED <<mounted, API_KEY, city, inputCity, fetchLog, submits>>

\* an in-flight axios.get is rejected with `err`
Reject(r, err) ==
    /\ r \in pending
    /\ pending' = pending \ {r}
    /\ applied' = r
    /\ Catch(err)
    /\ UNCHANGED <<mounted, API_KEY, city, inputCity, requests, fetchLog, submits>>

----------------------------------------------------------------------------
(* Chart projection (App.js:89-129).                                       *)

\* variant: the third dataset maps maxtemp_f again
chartDataMaxTwice(fd) ==
    [labels |-> [i \in 1..Len(fd) |-> fd[i].date],
     datasets |-> <<
        [label |-> "Avg. Temperature (F)",
         data |-> [i \in 1..Len(fd) |-> fd[i].day.avgtemp_f]],
        [label |-> "Max Temperature (F)",
         data |-> [i \in 1..Len(fd) |-> fd[i].day.maxtemp_f]],
        [label |-> "Min Temperature (F)",
         data |-> [i \in 1..Len(fd) |-> fd[i].day.maxtemp_f]] >>]

\* forecastData.map(day => ...) for the labels and for each dataset
chartData(fd) ==
    [labels |-> [i \in 1..Len(fd) |-> fd[i].date],
     datasets |-> <<
        [label |-> "Avg. Temperature (F)",
         data |-> [i \in 1..Len(fd) |-> fd[i].day.avgtemp_f]],
        [label |-> "Max Temperature (F)",
         data |-> [i \in 1..Len(fd) |-> fd[i].day.maxtemp_f]],
        [label |-> "Min Temperature (F)",
         data |-> [i \in 1..Len(fd) |-> fd[i].day.mintemp_f]] >>]

----------------------------------------------------------------------------

Next ==
    \/ Mount
    \/ \E value \in Cities : HandleChange(value)
    \/ handleSubmit
    \/ \E r \in pending : \E data \in SuccessBodies : Fulfill(r, data)
    \/ \E r \in pending : \E err \in Rejections : Reject(r, err)

Spec == Init /\ [][Next]_vars

\* the promise of an in-flight axios.get settles
Settle ==
    \/ \E r \in pending : \E data \in SuccessBodies : Fulfill(r, data)
    \/ \E r \in pending : \E err \in Rejections : Reject(r, err)

\* the program under the assumption that every response is delivered: an
\* axios.get promise that can settle eventually does
FairSpec == Init /\ [][Next]_vars /\ WF_vars(Settle)

\* a user who changes the city only when no request is in flight
handleSubmitIdle ==
    /\ (inputCity # city => pending = {})
    /\ handleSubmit

NextSerial ==
    \/ Mount
    \/ \E value \in Cities : HandleChange(value)
    \/ handleSubmitIdle
    \/ \E r \in pending : \E data \in SuccessBodies : Fulfill(r, data)
    \/ \E r \in pending : \E err \in Rejections : Reject(r, err)

\* the program driven so that fetches never overlap
SerialSpec == Init /\ [][NextSerial]_vars

TypeOK ==
    /\ mounted \in BOOLEAN
    /\ city \in Cities
    /\ inputCity \in Cities
    /\ requests \in 0..MaxFetches
    /\ Len(fetchLog) <= MaxFetches
    /\ submits \in 0..MaxSubmits

----------------------------------------------------------------------------
(* Display predicates used by the properties below.                        *)

ErrorSet == Truthy(error)
CurrentSet == Truthy(currentWeatherData)
ForecastShown == Len(forecastData) > 0
AllCleared == error = Null /\ currentWeatherData = Null /\ forecastData = <<>>

\* a step in which fetchWeatherData is invoked
FetchInvoked == Len(fetchLog') = Len(fetchLog) + 1
\* a step in which the form is submitted
Submitted == submits' = submits + 1
\* a step in which the outcome of in-flight request r is applied
Settled(r) == r \in pending /\ r \notin pending' /\ applied' = r

----------------------------------------------------------------------------
(* C1 as stated: every submit of draft c, also when the committed city is  *)
(* already c, sets city to c and invokes fetchWeatherData once for c.      *)
C1_Original ==
    [][Submitted => /\ city' = inputCity
                    /\ fetchLog' = Append(fetchLog, inputCity)]_vars

(* C1 amended: every submit of draft c sets city to c; it invokes          *)
(* fetchWeatherData exactly once for c when c differs from the committed   *)
(* city, and not at all when c equals it.                                  *)
C1_Amended ==
    [][Submitted => /\ city' = inputCity
                    /\ fetchLog' = IF inputCity # city
                                   THEN Append(fetchLog, inputCity)
                                   ELSE fetchLog]_vars

C1_Witness ==
    /\ submits = 2
    /\ city = "Paris"
    /\ fetchLog = <<DefaultCity, "Paris">>

(* C2 as stated: every invocation of fetchWeatherData leaves error,        *)
(* current conditions and forecast all empty before its result is applied. *)
C2_Original ==
    [][FetchInvoked => AllCleared']_vars

(* C2 amended: every invocation of fetchWeatherData made with a configured *)
(* API key leaves error, current conditions and forecast all empty, with   *)
(* its own request still in flight, before its result is applied.          *)
C2_Amended ==
    [][(FetchInvoked /\ Truthy(API_KEY)) =>
          /\ AllCleared'
          /\ [id |-> requests', city |-> city'] \in pending'
          /\ applied' # [id |-> requests', city |-> city']]_vars

C2_Witness ==
    /\ applied.id = 1
    /\ requests = 2
    /\ pending = {[id |-> 2, city |-> city]}
    /\ AllCleared

(* C3: the error is never set while current conditions are populated or    *)
(* the forecast is non-empty.                                              *)
C3_Exclusive ==
    ~(ErrorSet /\ (CurrentSet \/ ForecastShown))

(* C4: without an API key no request is ever issued, and after every       *)
(* fetchWeatherData invocation the error is the fixed missing-key message  *)
(* while current conditions and forecast stay empty.                       *)
C4_NoKey ==
    ~Truthy(API_KEY) =>
        /\ requests = 0
        /\ pending = {}
        /\ currentWeatherData = Null
        /\ forecastData = <<>>
        /\ (Len(fetchLog) > 0 => error = Str(MissingKeyMsg))
        /\ (Len(fetchLog) = 0 => error = Null)

C4_Witness ==
    /\ ~Truthy(API_KEY)
    /\ Len(fetchLog) = 2
    /\ submits >= 1
    /\ error = Str(MissingKeyMsg)

----------------------------------------------------------------------------
(* What a rejection carries, read off its shape.                           *)

\* err.response.data.error.message exists and is a string
HasStructuredString(err) ==
    /\ "response" \in DOMAIN err.fields
    /\ err.fields.response.type = "object"
    /\ err.fields.response.fields.data.type = "object"
    /\ "error" \in DOMAIN err.fields.response.fields.data.fields
    /\ err.fields.response.fields.data.fields.error.type = "object"
    /\ err.fields.response.fields.data.fields.error.fields.message.type = "string"

StructuredText(err) == err.fields.response.fields.data.fields.error.fields.message.val

CarriesStructured(err) == HasStructuredString(err) /\ StructuredText(err) # ""

CarriesTransport(err) ==
    /\ "message" \in DOMAIN err.fields
    /\ err.fields.message.type = "string"
    /\ err.fields.message.val # ""

(* C5 as stated: a rejection whose structured error message is any string  *)
(* m leaves error = m, current conditions null and the forecast empty.     *)
C5_Original ==
    [][\A r \in pending : Settled(r) => \A err \in Rejections :
          (HasStructuredString(err) /\ Reject(r, err)) =>
              /\ error' = Str(StructuredText(err))
              /\ currentWeatherData' = Null
              /\ forecastData' = <<>>]_vars

(* C5 amended: a rejection whose structured error message is a non-empty   *)
(* string m leaves error = m, current conditions null and forecast empty.  *)
C5_Amended ==
    [][\A r \in pending : Settled(r) => \A err \in Rejections :
          (CarriesStructured(err) /\ Reject(r, err)) =>
              /\ error' = Str(StructuredText(err))
              /\ currentWeatherData' = Null
              /\ forecastData' = <<>>]_vars

C5_Witness ==
    /\ applied.id > 0
    /\ applied.city = "Zzzzz"
    /\ error = Str(NoLocationMsg)
    /\ ~CurrentSet
    /\ ~ForecastShown

(* C6: a fetch started while others are in flight cancels none of them,    *)
(* and any in-flight response, also one for a city that is no longer       *)
(* selected, can be applied next and then populates the display.           *)
C6_Unserialized ==
    /\ [](\A r \in pending :
            ENABLED (\E data \in SuccessBodies :
                        /\ Fulfill(r, data)
                        /\ applied' = r
                        /\ Truthy(currentWeatherData')))
    /\ [][(FetchInvoked /\ Truthy(API_KEY)) =>
             /\ pending \subseteq pending'
             /\ Cardinality(pending') = Cardinality(pending) + 1]_vars

C6_Witness ==
    /\ requests = 2
    /\ pending = {}
    /\ city = "Paris"
    /\ applied = [id |-> 1, city |-> "London"]
    /\ CurrentSet
    /\ ForecastShown

(* C7: after a rejection the error is the structured message if one is     *)
(* carried, else the transport message if one is carried, else the fixed   *)
(* fallback text; in every case it is set.                                 *)
C7_Precedence ==
    [][\A r \in pending : Settled(r) => \A err \in Rejections :
          Reject(r, err) =>
              /\ error' = IF CarriesStructured(err) THEN Str(StructuredText(err))
                          ELSE IF CarriesTransport(err) THEN err.fields.message
                          ELSE Str(UnknownErrorMsg)
              /\ Truthy(error')]_vars

C7_Witness ==
    /\ applied.id > 0
    /\ pending = {}
    /\ error = Str(UnknownErrorMsg)

(* C8: fetchWeatherData is invoked exactly once, with the new city, at the *)
(* mount and at every change of city, and at no other step.                *)
C8_SoleTrigger ==
    [][fetchLog' = IF (~mounted /\ mounted') \/ city' # city
                   THEN Append(fetchLog, city')
                   ELSE fetchLog]_vars

C8_Witness ==
    /\ fetchLog = <<DefaultCity, "Zzzzz", DefaultCity>>
    /\ city = DefaultCity
    /\ inputCity = "Paris"

(* C9: a change of the draft leaves city, error, current conditions,       *)
(* forecast and the in-flight requests alone and invokes no fetch; city    *)
(* changes only in a submit step, to the draft.                            *)
C9_Frame ==
    [][/\ inputCity' # inputCity =>
            UNCHANGED <<city, error, currentWeatherData, forecastData,
                        pending, requests, fetchLog>>
       /\ city' # city => (Submitted /\ city' = inputCity)]_vars

C9_Witness ==
    /\ mounted
    /\ submits = 1
    /\ city = "Paris"
    /\ inputCity = "Zzzzz"
    /\ fetchLog = <<DefaultCity, "Paris">>

(* C10: after a response with a forecastday array of length n is applied,  *)
(* the chart has n labels and n points per series, the i-th being the i-th *)
(* day's date, avgtemp_f, maxtemp_f and mintemp_f.                         *)
C10_Projection ==
    [][\A r \in pending : Settled(r) => \A fd \in ForecastDayArrays :
          Fulfill(r, Obj([current |-> CurrentObj,
                          forecast |-> Obj([forecastday |-> fd])])) =>
              LET c == chartData(forecastData') IN
              /\ Len(fd) \in 0..ForecastDaysRequested
              /\ Len(c.labels) = Len(fd)
              /\ Len(c.datasets) = 3
              /\ \A k \in 1..3 : Len(c.datasets[k].data) = Len(fd)
              /\ \A i \in 1..Len(fd) :
                    /\ c.labels[i] = fd[i].date
                    /\ c.datasets[1].data[i] = fd[i].day.avgtemp_f
                    /\ c.datasets[2].data[i] = fd[i].day.maxtemp_f
                    /\ c.datasets[3].data[i] = fd[i].day.mintemp_f]_vars

C10_Witness ==
    /\ applied.id > 0
    /\ CurrentSet
    /\ Len(forecastData) = ForecastDaysRequested
    /\ chartData(forecastData).labels[1] = DayA.date
    /\ chartData(forecastData).labels[2] = DayB.date

----------------------------------------------------------------------------
(* C11 as stated: from every state with the error set, a submit invokes    *)
(* fetchWeatherData for the submitted city and clears the error.           *)
C11_Original ==
    [][(ErrorSet /\ Submitted) =>
          /\ fetchLog' = Append(fetchLog, inputCity)
          /\ error' = Null]_vars

(* C11 amended: from every state with the error set, a submit of a city    *)
(* other than the committed one invokes fetchWeatherData for it; with an   *)
(* API key that invocation clears the error and puts a request in flight,  *)
(* without one it sets the missing-key message again; a submit of the      *)
(* committed city invokes nothing and leaves the error as it is.           *)
C11_Amended ==
    [][(ErrorSet /\ Submitted) =>
          IF inputCity # city
          THEN /\ fetchLog' = Append(fetchLog, inputCity)
               /\ IF Truthy(API_KEY)
                  THEN /\ error' = Null
                       /\ [id |-> requests', city |-> inputCity] \in pending' \ pending
                  ELSE error' = Str(MissingKeyMsg)
          ELSE UNCHANGED <<fetchLog, error, pending>>]_vars

C11_Witness ==
    /\ ErrorSet
    /\ Truthy(API_KEY)
    /\ applied.id = 2
    /\ submits = 1
    /\ pending = {}
    /\ inputCity # city
    /\ ENABLED (handleSubmit /\ error' = Null
                  /\ fetchLog' = Append(fetchLog, inputCity))

----------------------------------------------------------------------------
(* C12: the number of requests issued never exceeds one for the mount plus *)
(* one per submit, and the step that applies a response (a failure         *)
(* included) issues no request.                                            *)
C12_NoRetry ==
    /\ [](requests <= (IF mounted THEN 1 ELSE 0) + submits)
    /\ [][\A r \in pending : Settled(r) =>
             /\ requests' = requests
             /\ pending' = pending \ {r}]_vars

C12_Witness ==
    /\ ErrorSet
    /\ pending = {}
    /\ requests = 2
    /\ submits = 2
    /\ applied.id = 2

----------------------------------------------------------------------------
(* What is on screen: the three guards of the JSX (App.js:213, 216, 228)   *)
(* are ErrorSet, CurrentSet and ForecastShown.                             *)

NoneShown == ~ErrorSet /\ ~CurrentSet /\ ~ForecastShown

(* C13: in every state the banner is rendered iff an error is stored, the  *)
(* card iff current conditions are stored, the chart iff the forecast has  *)
(* an entry; a response with an empty forecastday renders the card and no  *)
(* chart; and from the start of a fetch that has no other fetch in flight  *)
(* until a response is applied or another fetch starts, nothing is         *)
(* rendered.                                                               *)
C13_Guards ==
    /\ [](/\ ErrorSet <=> error # Null
          /\ CurrentSet <=> currentWeatherData # Null
          /\ ForecastShown <=> forecastData # <<>>)
    /\ [][\A r \in pending : Settled(r) =>
             (Fulfill(r, Obj([current |-> CurrentObj,
                              forecast |-> Obj([forecastday |-> <<>>])]))
                => CurrentSet' /\ ~ForecastShown')]_vars
    /\ [][(FetchInvoked /\ Truthy(API_KEY) /\ pending = {}) => NoneShown']_vars
    /\ [][(NoneShown /\ Cardinality(pending) = 1 /\ pending' = pending)
             => NoneShown']_vars

C13_Witness ==
    /\ CurrentSet
    /\ ~ForecastShown
    /\ ~ErrorSet
    /\ pending = {}
    /\ applied.id = 1

----------------------------------------------------------------------------
(* C14: while a request is in flight, a step that applies no response and  *)
(* is no submit keeps error, current conditions and forecast empty (no     *)
(* timeout ever sets an error); a request leaves the in-flight set only by *)
(* having its outcome applied; and if responses are delivered, the         *)
(* requests in flight are eventually all settled.                          *)
C14_NoTimeout ==
    /\ [][(AllCleared /\ pending # {} /\ pending \subseteq pending' /\ ~Submitted)
             => (AllCleared' /\ pending' = pending)]_vars
    /\ [][\A r \in pending : r \notin pending' =>
             (applied' = r /\ (ErrorSet' \/ CurrentSet'))]_vars
    /\ (pending # {}) ~> (pending = {})

C14_Witness ==
    /\ AllCleared
    /\ Cardinality(pending) = 2
    /\ applied.id = 0
    /\ inputCity # city

----------------------------------------------------------------------------
(* C15: when fetches never overlap, in every state with no fetch in flight *)
(* the error and the weather data are not both shown, the last             *)
(* fetchWeatherData invocation was for the committed city, and what is     *)
(* displayed is the outcome of that invocation: the applied response of    *)
(* the latest request, or the missing-key message when no key is set.      *)
C15_SerialConsistent ==
    (mounted /\ pending = {}) =>
        /\ ~(ErrorSet /\ (CurrentSet \/ ForecastShown))
        /\ fetchLog[Len(fetchLog)] = city
        /\ IF Truthy(API_KEY)
           THEN /\ applied = [id |-> requests, city |-> city]
                /\ requests = Len(fetchLog)
                /\ ErrorSet \/ CurrentSet
           ELSE error = Str(MissingKeyMsg) /\ ~CurrentSet /\ ~ForecastShown

C15_Witness ==
    /\ pending = {}
    /\ requests = 3
    /\ city = "Paris"
    /\ applied = [id |-> 3, city |-> "Paris"]
    /\ CurrentSet
    /\ ForecastShown
    /\ ~ErrorSet

----------------------------------------------------------------------------
\* a fulfilled response whose body has no forecast object
BodyWithoutForecast == Obj([current |-> CurrentObj])

(* C16: when a fulfilled response without the forecast object has been     *)
(* handled, the error is set (to the TypeError's message), current         *)
(* conditions are null and the forecast is empty.                          *)
C16_PartialSuccess ==
    [][\A r \in pending : Settled(r) =>
          (Fulfill(r, BodyWithoutForecast) =>
              /\ ErrorSet'
              /\ error' = Get(ForecastTypeError, "message")
              /\ currentWeatherData' = Null
              /\ forecastData' = <<>>)]_vars

C16_Witness ==
    /\ applied.id > 0
    /\ error = Get(ForecastTypeError, "message")
    /\ ~CurrentSet
    /\ ~ForecastShown
    /\ pending = {}

====
